---------------------------- MODULE Spec2Model ----------------------------
(***************************************************************************)
(* A model of wallpaperer.py: anchor placement, edge sampling, background  *)
(* colour inference (flood fill and voting), scale resolution and the      *)
(* main()/wallpaperer() run.                                               *)
(*                                                                         *)
(* Python floats are IEEE-754 doubles.  The code divides two ints with     *)
(* "/" and multiplies the quotient by an int before flooring, so doubles   *)
(* are modelled exactly: a positive double is a record [m, e] whose m is   *)
(* the 53-bit significand (most significant bit first) and whose value is  *)
(* m * 2^e; every operation rounds to nearest, ties to even.               *)
(***************************************************************************)
EXTENDS Integers, Sequences, FiniteSets, TLC

VARIABLES
    pc,            \* position of the running function
    img,           \* the image: [size |-> <<width, height>>, pixels |-> grid]
    canvas_size,   \* <<cwidth, cheight>>
    pos,           \* anchor name
    ignore_edges,  \* the ignore_edges argument of the selector / edge_pixels
    scale_oper,    \* None or <<method, ratio>>
    edges,         \* the sequence edge_pixels yields
    flood,         \* locals of flood_find
    counted,       \* history: pixel -> regions whose size counted it
    vote,          \* locals of find_background: colour -> tally
    color,         \* background colour found or supplied
    new_size,      \* result of calculate_size
    coord,         \* result of the placement function
    argv,          \* the command line main() is started with
    args,          \* argparse namespace of main()
    options,       \* options dict of main()
    canvas,        \* the canvas of wallpaperer()
    trace          \* history: steps of wallpaperer() in the order they ran

vars == <<pc, img, canvas_size, pos, ignore_edges, scale_oper, edges, flood,
          counted, vote, color, new_size, coord, argv, args, options, canvas, trace>>

\* Python's None; a value that may be None is otherwise a non-empty tuple
None == <<>>

-----------------------------------------------------------------------------
(* Bounds of the model *)

\* largest number of pixels (width * height) of an image whose pixels are enumerated
MaxPixels == 6
\* image and canvas dimensions enumerated for the placement functions
MaxDim == 4
\* image and canvas dimensions enumerated for calculate_size
MaxScaleDim == 3
\* largest number of pixels of an image handed to a whole run of main()
MaxRunPixels == 2

-----------------------------------------------------------------------------
(* IEEE-754 double arithmetic, as far as calculate_size and main() use it *)

\* significand width of a Python float
PREC == 53

Zero == [m |-> <<>>, e |-> 0]

RECURSIVE Pow2(_)
Pow2(n) == IF n = 0 THEN 1 ELSE 2 * Pow2(n - 1)

RECURSIVE BitsOfNat(_)
\* binary digits of n > 0, most significant first
BitsOfNat(n) == IF n = 0 THEN <<>> ELSE Append(BitsOfNat(n \div 2), n % 2)

RECURSIVE NatOfBits(_)
NatOfBits(s) ==
    IF s = <<>> THEN 0
    ELSE 2 * NatOfBits(SubSeq(s, 1, Len(s) - 1)) + s[Len(s)]

RECURSIVE Zeros(_)
Zeros(n) == IF n <= 0 THEN <<>> ELSE Append(Zeros(n - 1), 0)

RECURSIVE IncBits(_)
\* s + 1 on a bit string; the result is one bit longer when s is all ones
IncBits(s) ==
    IF s = <<>> THEN <<1>>
    ELSE IF s[Len(s)] = 0 THEN Append(SubSeq(s, 1, Len(s) - 1), 1)
    ELSE Append(IncBits(SubSeq(s, 1, Len(s) - 1)), 0)

AnyOne(s) == \E i \in 1..Len(s) : s[i] = 1

\* the double nearest to bits * 2^e (bits starts with 1), ties to even
RoundBits(bits, e) ==
    IF Len(bits) <= PREC
    THEN [m |-> bits \o Zeros(PREC - Len(bits)), e |-> e - (PREC - Len(bits))]
    ELSE LET keep == SubSeq(bits, 1, PREC)
             rest == SubSeq(bits, PREC + 1, Len(bits))
             up   == rest[1] = 1 /\ (AnyOne(Tail(rest)) \/ keep[PREC] = 1)
             inc  == IncBits(keep)
             e2   == e + Len(rest)
         IN  IF ~up THEN [m |-> keep, e |-> e2]
             ELSE IF Len(inc) = PREC THEN [m |-> inc, e |-> e2]
             ELSE [m |-> SubSeq(inc, 1, PREC), e |-> e2 + 1]

RECURSIVE DivBits(_, _, _, _)
\* n further quotient bits of r / d for a remainder r < d, appended to acc,
\* and the remainder left
DivBits(r, d, n, acc) ==
    IF n = 0 THEN [bits |-> acc, rem |-> r]
    ELSE IF 2 * r >= d THEN DivBits(2 * r - d, d, n - 1, Append(acc, 1))
    ELSE DivBits(2 * r, d, n - 1, Append(acc, 0))

RECURSIVE ShiftUp(_, _)
\* least s with a * 2^s >= b
ShiftUp(a, b) == IF a >= b THEN 0 ELSE 1 + ShiftUp(2 * a, b)

RECURSIVE ShiftDown(_, _)
\* greatest s with b * 2^s <= a   (a >= b)
ShiftDown(a, b) == IF 2 * b > a THEN 0 ELSE 1 + ShiftDown(a, 2 * b)

\* a / b on two ints a >= 0, b > 0: the correctly rounded quotient
TrueDiv(a, b) ==
    IF a = 0 THEN Zero
    ELSE LET su   == ShiftUp(a, b)
             sd   == IF a >= b THEN ShiftDown(a, b) ELSE 0
             num  == a * Pow2(su)
             den  == b * Pow2(sd)
             q    == DivBits(num - den, den, PREC - 1, <<1>>)
             m    == q.bits
             e    == (sd - su) - (PREC - 1)
             up   == 2 * q.rem > den \/ (2 * q.rem = den /\ m[PREC] = 1)
             inc  == IncBits(m)
         IN  IF ~up THEN [m |-> m, e |-> e]
             ELSE IF Len(inc) = PREC THEN [m |-> inc, e |-> e]
             ELSE [m |-> SubSeq(inc, 1, PREC), e |-> e + 1]

RECURSIVE MulBits(_, _, _, _, _)
\* the bits of m[1..i] * w + carry, followed by acc
MulBits(m, w, i, carry, acc) ==
    IF i = 0 THEN BitsOfNat(carry) \o acc
    ELSE IF (m[i] * w + carry) % 2 = 1
    THEN MulBits(m, w, i - 1, (m[i] * w + carry) \div 2, <<1>> \o acc)
    ELSE MulBits(m, w, i - 1, (m[i] * w + carry) \div 2, <<0>> \o acc)

\* x * w for a double x >= 0 and an int w >= 0 (the int converts exactly)
MulInt(x, w) ==
    IF x.m = <<>> \/ w = 0 THEN Zero
    ELSE RoundBits(MulBits(x.m, w, Len(x.m), 0, <<>>), x.e)

\* math.floor of a double >= 0
Floor(x) ==
    IF x.m = <<>> THEN 0
    ELSE IF x.e >= 0 THEN NatOfBits(x.m) * Pow2(x.e)
    ELSE IF Len(x.m) + x.e <= 0 THEN 0
    ELSE NatOfBits(SubSeq(x.m, 1, Len(x.m) + x.e))

\* x < y on doubles >= 0
FLess(x, y) ==
    IF y.m = <<>> THEN FALSE
    ELSE IF x.m = <<>> THEN TRUE
    ELSE IF x.e # y.e THEN x.e < y.e
    ELSE LET h  == PREC \div 2
             xh == NatOfBits(SubSeq(x.m, 1, h))
             yh == NatOfBits(SubSeq(y.m, 1, h))
             xl == NatOfBits(SubSeq(x.m, h + 1, PREC))
             yl == NatOfBits(SubSeq(y.m, h + 1, PREC))
         IN  xh < yh \/ (xh = yh /\ xl < yl)

\* min(x, y) of Python: y only when y < x
FMin(x, y) == IF FLess(y, x) THEN y ELSE x

\* float(value) of a decimal numeral, given as <<n, d>> with value n / d
Float(value) == TrueDiv(value[1], value[2])

-----------------------------------------------------------------------------
(* calculate_size *)

calculate_size(size, csize, oper) ==
    LET width   == size[1]
        height  == size[2]
        cwidth  == csize[1]
        cheight == csize[2]
    IN  IF oper = None
        THEN IF width > cwidth \/ height > cheight
             THEN LET ratio == FMin(TrueDiv(cwidth, width), TrueDiv(cheight, height))
                  IN  <<Floor(MulInt(ratio, width)), Floor(MulInt(ratio, height))>>
             ELSE size
        ELSE LET method == oper[1]
                 ratio  == oper[2]
             IN  IF method = "scale_rel_canvas"
                 THEN LET new_height == Floor(MulInt(ratio, cheight))
                          ratio2     == TrueDiv(new_height, height)
                      IN  <<Floor(MulInt(ratio2, width)), new_height>>
                 ELSE IF method = "scale_rel_image"
                 THEN <<Floor(MulInt(ratio, width)), Floor(MulInt(ratio, height))>>
                 ELSE size

-----------------------------------------------------------------------------
(* Placement functions and POSITION_VALUES *)

\* floor(n / 2): "/" by 2 is exact on a double, so this is the floor of the
\* exact half, towards minus infinity
FloorHalf(n) == n \div 2

\* the half of n rounded towards zero
TruncHalf(n) == IF n >= 0 THEN n \div 2 ELSE -((-n) \div 2)

_center_trunc(image_size, csize) ==
    <<TruncHalf(csize[1] - image_size[1]), TruncHalf(csize[2] - image_size[2])>>

_center(image_size, csize) ==
    <<FloorHalf(csize[1] - image_size[1]), FloorHalf(csize[2] - image_size[2])>>

_center_top(image_size, csize) ==
    <<FloorHalf(csize[1] - image_size[1]), 0>>

_center_bottom(image_size, csize) ==
    <<FloorHalf(csize[1] - image_size[1]), csize[2] - image_size[2]>>

_center_left(image_size, csize) ==
    <<0, FloorHalf(csize[2] - image_size[2])>>

_center_right(image_size, csize) ==
    <<csize[1] - image_size[1], FloorHalf(csize[2] - image_size[2])>>

_bottom_left(image_size, csize) == <<0, csize[2] - image_size[2]>>

_bottom_right(image_size, csize) ==
    <<csize[1] - image_size[1], csize[2] - image_size[2]>>

_top_left(image_size, csize) == <<0, 0>>

_top_right(image_size, csize) == <<csize[1] - image_size[1], 0>>

\* the keys of POSITION_VALUES
PositionNames ==
    {"center", "bl", "bottom-left", "br", "bottom-right", "tl", "top-left",
     "tr", "top-right", "center-bottom", "center-left", "center-right",
     "center-top", "cb-bottom", "cl", "cr", "ct"}

\* POSITION_VALUES[name](image_size, canvas_size)
POSITION_VALUES(name, image_size, csize) ==
    CASE name = "center" -> _center(image_size, csize)
      [] name \in {"bl", "bottom-left"} -> _bottom_left(image_size, csize)
      [] name \in {"br", "bottom-right"} -> _bottom_right(image_size, csize)
      [] name \in {"tl", "top-left"} -> _top_left(image_size, csize)
      [] name \in {"tr", "top-right"} -> _top_right(image_size, csize)
      [] name \in {"center-bottom", "cb-bottom"} -> _center_bottom(image_size, csize)
      [] name \in {"center-left", "cl"} -> _center_left(image_size, csize)
      [] name \in {"center-right", "cr"} -> _center_right(image_size, csize)
      [] name \in {"center-top", "ct"} -> _center_top(image_size, csize)

-----------------------------------------------------------------------------
(* Images *)

\* the pixel values of the images of the model: black and white, RGB
Palette == {<<0, 0, 0>>, <<255, 255, 255>>}

\* the pixel coordinates of an image of the given size
Coords(size) == (0..(size[1] - 1)) \X (0..(size[2] - 1))

\* the sizes of at most maxp pixels
ImageSizes(maxp) == {s \in (1..maxp) \X (1..maxp) : s[1] * s[2] <= maxp}

\* every image of at most maxp pixels over the palette
Images(maxp) ==
    UNION {[size : {s}, pixels : [Coords(s) -> Palette]] : s \in ImageSizes(maxp)}

-----------------------------------------------------------------------------
(* edge_pixels *)

TopAnchors == {"center", "bl", "bottom-left", "br", "bottom-right"}
LeftAnchors == {"center", "bottom-right", "br", "top-right", "tr"}
RightAnchors == {"center", "bottom-left", "bl", "top-left", "tl"}
BottomAnchors == {"center", "top-right", "tr", "top-left", "tl"}

\* the coordinates edge_pixels(img, p, ignore) yields, in order
edge_pixels(size, p, ignore) ==
    LET width  == size[1]
        height == size[2]
        top    == [i \in 1..width |-> <<i - 1, 0>>]
        left   == [i \in 1..height |-> <<0, i - 1>>]
        right  == [i \in 1..height |-> <<width - 1, i - 1>>]
        bottom == [i \in 1..width |-> <<i - 1, height - 1>>]
    IN  (IF p \in TopAnchors \/ ~ignore THEN top ELSE <<>>)
        \o (IF p \in LeftAnchors \/ ~ignore THEN left ELSE <<>>)
        \o (IF p \in RightAnchors \/ ~ignore THEN right ELSE <<>>)
        \o (IF p \in BottomAnchors \/ ~ignore THEN bottom ELSE <<>>)

-----------------------------------------------------------------------------
(* flood_find *)

SkipPixelVisitedOnly(visited, pixels, c, p) == p \in visited

\* line 146: the popped pixel is not counted
SkipPixel(visited, pixels, c, p) == p \in visited \/ pixels[p] # c

\* line 143: the popped coordinate lies outside the image
OutOfRange(size, p) ==
    p[1] < 0 \/ p[1] >= size[1] \/ p[2] < 0 \/ p[2] >= size[2]

BeginRegionFresh(fl, pixels, e) ==
    [fl EXCEPT !.visited = {}, !.color = pixels[e], !.pixqueue = <<e>>,
               !.size = 0, !.next = @ + 1, !.at = "while"]

\* lines 135-137: a region starts at the unvisited edge pixel e
BeginRegion(fl, pixels, e) ==
    [fl EXCEPT !.color = pixels[e], !.pixqueue = <<e>>, !.size = 0,
               !.next = @ + 1, !.at = "while"]

\* lines 140-155: one turn of the while loop
PopPixel(fl, image) ==
    LET p    == fl.pixqueue[Len(fl.pixqueue)]
        rest == SubSeq(fl.pixqueue, 1, Len(fl.pixqueue) - 1)
    IN  IF OutOfRange(image.size, p) THEN [fl EXCEPT !.pixqueue = rest]
        ELSE IF SkipPixel(fl.visited, image.pixels, fl.color, p)
        THEN [fl EXCEPT !.pixqueue = rest]
        ELSE [fl EXCEPT !.visited = @ \cup {p},
                        !.size = @ + 1,
                        !.pixqueue = rest \o <<<<p[1] + 1, p[2]>>, <<p[1] - 1, p[2]>>,
                                               <<p[1], p[2] + 1>>, <<p[1], p[2] - 1>>>>]

\* the pixel the next turn of the while loop counts, if it counts one
Counts(fl, image) ==
    LET p == fl.pixqueue[Len(fl.pixqueue)]
    IN  /\ fl.at = "while"
        /\ fl.pixqueue # <<>>
        /\ ~OutOfRange(image.size, p)
        /\ ~SkipPixel(fl.visited, image.pixels, fl.color, p)

LargestAreaLast(areas) ==
    areas[CHOOSE i \in 1..Len(areas) :
            \A j \in 1..Len(areas) :
                areas[j].size < areas[i].size \/ (areas[j].size = areas[i].size /\ j <= i)]

\* max(areas, key=size): the first area of the largest size
LargestArea(areas) ==
    areas[CHOOSE i \in 1..Len(areas) :
            \A j \in 1..Len(areas) :
                areas[j].size < areas[i].size \/ (areas[j].size = areas[i].size /\ j >= i)]

\* the locals at the top of flood_find
FloodStart ==
    [visited |-> {}, areas |-> <<>>, color |-> None, pixqueue |-> <<>>,
     size |-> 0, next |-> 1, at |-> "for"]

\* one step of flood_find over the edge sequence es
FloodStep(fl, image, es) ==
    IF fl.at = "for"
    THEN IF fl.next > Len(es)
         THEN IF fl.areas = <<>> THEN [fl EXCEPT !.at = "error"]
              ELSE [fl EXCEPT !.at = "done"]
         ELSE IF es[fl.next] \in fl.visited THEN [fl EXCEPT !.next = @ + 1]
         ELSE BeginRegion(fl, image.pixels, es[fl.next])
    ELSE IF fl.pixqueue # <<>> THEN PopPixel(fl, image)
    ELSE [fl EXCEPT !.areas = Append(@, [color |-> fl.color, size |-> fl.size]),
                    !.at = "for"]

RECURSIVE FloodRun(_, _, _)
FloodRun(fl, image, es) ==
    IF fl.at \in {"done", "error"} THEN fl
    ELSE FloodRun(FloodStep(fl, image, es), image, es)

\* flood_find(img, pos, ignore_edges): the colour returned, or None when
\* max() raises ValueError on an empty list of areas
flood_find(image, p, ignore) ==
    LET fl == FloodRun(FloodStart, image, edge_pixels(image.size, p, ignore))
    IN  IF fl.at = "error" THEN None ELSE LargestArea(fl.areas).color

-----------------------------------------------------------------------------
(* find_background *)

\* the tally of lines 167-170 over the edge sequence es
Tally(pixels, es) ==
    [c \in {pixels[es[i]] : i \in 1..Len(es)} |->
        Cardinality({i \in 1..Len(es) : pixels[es[i]] = c})]

RECURSIVE TupleLess(_, _)
\* a < b on Python tuples of ints
TupleLess(a, b) ==
    IF a = <<>> THEN b # <<>>
    ELSE IF b = <<>> THEN FALSE
    ELSE IF a[1] # b[1] THEN a[1] < b[1]
    ELSE TupleLess(Tail(a), Tail(b))

\* max(vote): the greatest key of the dict
MaxKey(v) == CHOOSE c \in DOMAIN v : \A d \in DOMAIN v : ~TupleLess(c, d)

\* find_background(img, pos, ignore_edges): the colour returned, or None when
\* max() raises ValueError on an empty dict
find_background(image, p, ignore) ==
    LET v == Tally(image.pixels, edge_pixels(image.size, p, ignore))
    IN  IF DOMAIN v = {} THEN None ELSE MaxKey(v)

-----------------------------------------------------------------------------
(* Values the variables have where a specification does not use them *)

Idle == <<>>

IdleFlood ==
    /\ edges = <<>>
    /\ flood = Idle
    /\ counted = Idle
    /\ vote = Idle

IdleMain ==
    /\ argv = Idle
    /\ args = Idle
    /\ options = Idle
    /\ canvas = None
    /\ trace = <<>>

floodVars == <<edges, flood, counted, vote>>
mainVars == <<argv, args, options, canvas, trace>>
inputVars == <<img, canvas_size, pos, ignore_edges, scale_oper>>

-----------------------------------------------------------------------------
(* SpecPlace: the placement functions applied to bounded sizes *)

Dims == (1..MaxDim) \X (1..MaxDim)

InitPlace ==
    /\ pc = "place"
    /\ img \in [size : Dims]
    /\ canvas_size \in Dims
    /\ pos \in PositionNames
    /\ ignore_edges = TRUE
    /\ scale_oper = None
    /\ color = None
    /\ new_size = None
    /\ coord = None
    /\ IdleFlood
    /\ IdleMain

Place ==
    /\ pc = "place"
    /\ coord' = POSITION_VALUES(pos, img.size, canvas_size)
    /\ pc' = "done"
    /\ UNCHANGED <<inputVars, floodVars, mainVars, color, new_size>>

NextPlace == Place

SpecPlace == InitPlace /\ [][NextPlace]_vars

-----------------------------------------------------------------------------
(* SpecSize: calculate_size applied to bounded sizes and the named scenarios *)

ScaleDims == (1..MaxScaleDim) \X (1..MaxScaleDim)

ScenarioImages == {<<4000, 3000>>, <<200, 100>>, <<22, 2>>, <<11, 11>>}

ScenarioCanvases == {<<1920, 1080>>, <<1000, 800>>, <<15, 2>>, <<30, 30>>}

\* the decimal numerals given to --scale-rel-image / --scale-rel-canvas
Fractions == {<<1, 10>>, <<5, 10>>, <<10, 10>>, <<15, 10>>, <<20, 10>>}

ScaleOpers ==
    {None, <<"dont_crop", Float(<<10, 10>>)>>}
        \cup {<<m, Float(f)>> : m \in {"scale_rel_image", "scale_rel_canvas"},
                                f \in Fractions}

InitSize ==
    /\ pc = "calculate_size"
    /\ img \in [size : ScaleDims \cup ScenarioImages]
    /\ canvas_size \in ScaleDims \cup ScenarioCanvases
    /\ scale_oper \in ScaleOpers
    /\ pos = "center"
    /\ ignore_edges = TRUE
    /\ color = None
    /\ new_size = None
    /\ coord = None
    /\ IdleFlood
    /\ IdleMain

CalculateSize ==
    /\ pc = "calculate_size"
    /\ new_size' = calculate_size(img.size, canvas_size, scale_oper)
    /\ pc' = "done"
    /\ UNCHANGED <<inputVars, floodVars, mainVars, color, coord>>

NextSize == CalculateSize

SpecSize == InitSize /\ [][NextSize]_vars

-----------------------------------------------------------------------------
(* main() and wallpaperer() *)

\* the keys of SIZES
SizeNames ==
    {"android-xxxhdpi", "android-xxhdpi", "android-xhdpi", "android-hdpi",
     "android-mdpi", "android-ldpi", "hd", "fullhd", "4k-uhd", "4k-dci"}

\* SIZES[name]
SIZES(name) ==
    CASE name = "android-xxxhdpi" -> <<1280, 1920>>
      [] name = "android-xxhdpi" -> <<960, 1600>>
      [] name = "android-xhdpi" -> <<640, 960>>
      [] name = "android-hdpi" -> <<480, 800>>
      [] name = "android-mdpi" -> <<320, 480>>
      [] name = "android-ldpi" -> <<240, 320>>
      [] name = "hd" -> <<1366, 768>>
      [] name = "fullhd" -> <<1920, 1080>>
      [] name = "4k-uhd" -> <<3840, 2160>>
      [] name = "4k-dci" -> <<4096, 2160>>

RECURSIVE Horner(_)
Horner(digits) ==
    IF digits = <<>> THEN 0
    ELSE 10 * Horner(SubSeq(digits, 1, Len(digits) - 1)) + digits[Len(digits)]

\* int(text) of a numeral given as <<sign, digit, ..., digit>>
int(numeral) == numeral[1] * Horner(Tail(numeral))

NormalizeColorNone(c) == c

\* lines 188-189: a 3-channel colour gets full opacity
NormalizeColor(c) == IF Len(c) = 3 THEN <<c[1], c[2], c[3], 255>> ELSE c

\* img.rotate(angle, fillcolor=..., expand=True) of PIL for the right angles
Rotate(image, angle) ==
    LET w == image.size[1]
        h == image.size[2]
        a == angle % 360
    IN  IF a = 90
        THEN [size |-> <<h, w>>,
              pixels |-> [q \in Coords(<<h, w>>) |-> image.pixels[<<w - 1 - q[2], q[1]>>]]]
        ELSE IF a = 180
        THEN [size |-> <<w, h>>,
              pixels |-> [q \in Coords(<<w, h>>) |->
                            image.pixels[<<w - 1 - q[1], h - 1 - q[2]>>]]]
        ELSE IF a = 270
        THEN [size |-> <<h, w>>,
              pixels |-> [q \in Coords(<<h, w>>) |-> image.pixels[<<q[2], h - 1 - q[1]>>]]]
        ELSE image

\* lines 254-256: the scale attributes of the namespace that are set, in the
\* order the loop visits them
ScaleAttrs(a) ==
    (IF a.scale_rel_canvas # None THEN <<"scale_rel_canvas">> ELSE <<>>)
    \o (IF a.scale_rel_image # None THEN <<"scale_rel_image">> ELSE <<>>)
    \o (IF a.dont_crop THEN <<"dont_crop">> ELSE <<>>)

\* lines 254-259: the scale operation of the options when at most one
\* attribute is set; float(True) is 1.0
ScaleOption(a) ==
    IF ScaleAttrs(a) = <<>> THEN None
    ELSE IF ScaleAttrs(a)[1] = "scale_rel_canvas"
    THEN <<"scale_rel_canvas", Float(a.scale_rel_canvas)>>
    ELSE IF ScaleAttrs(a)[1] = "scale_rel_image"
    THEN <<"scale_rel_image", Float(a.scale_rel_image)>>
    ELSE <<"dont_crop", Float(<<1, 1>>)>>

\* lines 267-275: the canvas size, or None when main() exits on it
CanvasSize(size) ==
    IF size = None THEN SIZES("fullhd")
    ELSE IF Len(size) = 1
    THEN (IF size[1] \in SizeNames THEN SIZES(size[1]) ELSE None)
    ELSE <<int(size[1]), int(size[2])>>

\* the options main() hands to wallpaperer(), lines 249-283
Options(a) ==
    [scale_oper   |-> ScaleOption(a),
     rotate       |-> IF a.rotate = None THEN None ELSE <<int(a.rotate)>>,
     color        |-> IF a.color = None THEN None
                      ELSE [i \in 1..Len(a.color) |-> int(a.color[i])],
     simple       |-> a.simple,
     ignore_edges |-> ~a.dont_ignore_edges]

\* main() leaves through sys.exit(message) before wallpaperer() is called
ExitsEarly(a) ==
    \/ a.position \notin PositionNames
    \/ Len(ScaleAttrs(a)) > 1
    \/ (a.rotate # None /\ int(a.rotate) < 0)
    \/ CanvasSize(a.size) = None

-----------------------------------------------------------------------------
(* C1 *)

\* the canonical anchor an accepted name stands for
Canonical(name) ==
    CASE name \in {"tl", "top-left"} -> "top-left"
      [] name \in {"tr", "top-right"} -> "top-right"
      [] name \in {"bl", "bottom-left"} -> "bottom-left"
      [] name \in {"br", "bottom-right"} -> "bottom-right"
      [] name = "center" -> "center"
      [] name \in {"ct", "center-top"} -> "center-top"
      [] name \in {"cb-bottom", "center-bottom"} -> "center-bottom"
      [] name \in {"cl", "center-left"} -> "center-left"
      [] name \in {"cr", "center-right"} -> "center-right"

\* the greatest integer k with 2k <= n
HalfDown(n) == CHOOSE k \in -(MaxDim + 1)..(MaxDim + 1) : 2 * k <= n /\ n < 2 * k + 2

TableX(anchor, iw, cw) ==
    IF anchor \in {"top-left", "bottom-left", "center-left"} THEN 0
    ELSE IF anchor \in {"top-right", "bottom-right", "center-right"} THEN cw - iw
    ELSE HalfDown(cw - iw)

TableY(anchor, ih, ch) ==
    IF anchor \in {"top-left", "top-right", "center-top"} THEN 0
    ELSE IF anchor \in {"bottom-left", "bottom-right", "center-bottom"} THEN ch - ih
    ELSE HalfDown(ch - ih)

\* C1: every registered placement function returns the coordinate of the
\* table for its anchor, unclamped when negative and floored
C1_Placement ==
    pc = "done" =>
        coord = <<TableX(Canonical(pos), img.size[1], canvas_size[1]),
                  TableY(Canonical(pos), img.size[2], canvas_size[2])>>

\* a centred image that overhangs the canvas by an odd amount has been placed
C1_Witness ==
    /\ pc = "done"
    /\ pos = "center"
    /\ img.size = <<4, 2>>
    /\ canvas_size = <<1, 1>>
    /\ coord = <<-2, -1>>

-----------------------------------------------------------------------------
(* C5, C6 *)

\* floor(x * w) on the exact product of the double x and the int w
ExactFloorMul(x, w) ==
    IF x.m = <<>> \/ w = 0 THEN 0
    ELSE LET bits == MulBits(x.m, w, Len(x.m), 0, <<>>)
         IN  IF Len(bits) + x.e <= 0 THEN 0
             ELSE NatOfBits(SubSeq(bits, 1, Len(bits) + x.e))

\* the size of section 4.5 in exact arithmetic
ReferenceSize(size, csize, oper) ==
    LET iw == size[1]
        ih == size[2]
        cw == csize[1]
        ch == csize[2]
    IN  IF oper = None
        THEN IF iw > cw \/ ih > ch
             THEN IF cw * ih <= ch * iw
                  THEN <<cw, (ih * cw) \div iw>>
                  ELSE <<(iw * ch) \div ih, ch>>
             ELSE size
        ELSE IF oper[1] = "scale_rel_image"
        THEN <<ExactFloorMul(oper[2], iw), ExactFloorMul(oper[2], ih)>>
        ELSE IF oper[1] = "scale_rel_canvas"
        THEN LET nh == ExactFloorMul(oper[2], ch)
             IN  <<(nh * iw) \div ih, nh>>
        ELSE size

IsScaleOperation(oper) ==
    oper = None \/ oper[1] \in {"scale_rel_image", "scale_rel_canvas"}

\* C5: calculate_size never returns a zero or negative dimension
C5_PositiveSize ==
    (pc = "done" /\ IsScaleOperation(scale_oper)) =>
        (new_size[1] >= 1 /\ new_size[2] >= 1)

\* C6: calculate_size returns the size of the section 4.5 reference
C6_ReferenceSize ==
    (pc = "done" /\ IsScaleOperation(scale_oper)) =>
        new_size = ReferenceSize(img.size, canvas_size, scale_oper)

-----------------------------------------------------------------------------
(* SpecEdge: edge_pixels applied to every anchor name and bounded sizes *)

InitEdge ==
    /\ pc = "edge_pixels"
    /\ img \in [size : Dims]
    /\ pos \in PositionNames
    /\ ignore_edges \in BOOLEAN
    /\ canvas_size = <<1, 1>>
    /\ scale_oper = None
    /\ color = None
    /\ new_size = None
    /\ coord = None
    /\ IdleFlood
    /\ IdleMain

EdgePixels ==
    /\ pc = "edge_pixels"
    /\ edges' = edge_pixels(img.size, pos, ignore_edges)
    /\ pc' = "done"
    /\ UNCHANGED <<inputVars, flood, counted, vote, mainVars, color, new_size, coord>>

NextEdge == EdgePixels

SpecEdge == InitEdge /\ [][NextEdge]_vars

-----------------------------------------------------------------------------
(* SpecVote: find_background applied to every image of at most MaxPixels pixels *)

InitVote ==
    /\ pc = "find_background"
    /\ img \in Images(MaxPixels)
    /\ pos \in PositionNames
    /\ ignore_edges \in BOOLEAN
    /\ canvas_size = <<1, 1>>
    /\ scale_oper = None
    /\ color = None
    /\ new_size = None
    /\ coord = None
    /\ IdleFlood
    /\ IdleMain

\* find_background returns
FindBackground ==
    /\ pc = "find_background"
    /\ edge_pixels(img.size, pos, ignore_edges) # <<>>
    /\ edges' = edge_pixels(img.size, pos, ignore_edges)
    /\ vote' = Tally(img.pixels, edges')
    /\ color' = find_background(img, pos, ignore_edges)
    /\ pc' = "done"
    /\ UNCHANGED <<inputVars, flood, counted, mainVars, new_size, coord>>

\* max() of an empty dict raises ValueError
FindBackgroundRaises ==
    /\ pc = "find_background"
    /\ edge_pixels(img.size, pos, ignore_edges) = <<>>
    /\ edges' = <<>>
    /\ vote' = Tally(img.pixels, edges')
    /\ pc' = "error"
    /\ UNCHANGED <<inputVars, flood, counted, mainVars, color, new_size, coord>>

NextVote == FindBackground \/ FindBackgroundRaises

SpecVote == InitVote /\ [][NextVote]_vars

-----------------------------------------------------------------------------
(* SpecFlood: flood_find, one step per loop turn, on every image of at most *)
(* MaxPixels pixels                                                         *)

InitFlood ==
    /\ pc = "for"
    /\ img \in Images(MaxPixels)
    /\ pos \in PositionNames
    /\ ignore_edges \in BOOLEAN
    /\ edges = edge_pixels(img.size, pos, ignore_edges)
    /\ flood = FloodStart
    /\ counted = [p \in Coords(img.size) |-> <<>>]
    /\ vote = Idle
    /\ canvas_size = <<1, 1>>
    /\ scale_oper = None
    /\ color = None
    /\ new_size = None
    /\ coord = None
    /\ IdleMain

FloodAdvance ==
    /\ flood' = FloodStep(flood, img, edges)
    /\ pc' = flood'.at
    /\ UNCHANGED <<inputVars, edges, vote, mainVars, new_size, coord>>

\* line 132: the edge pixel already belongs to a region
SeedVisited ==
    /\ pc = "for"
    /\ flood.next <= Len(edges)
    /\ edges[flood.next] \in flood.visited
    /\ FloodAdvance
    /\ UNCHANGED <<counted, color>>

\* lines 135-137
SeedNew ==
    /\ pc = "for"
    /\ flood.next <= Len(edges)
    /\ edges[flood.next] \notin flood.visited
    /\ FloodAdvance
    /\ UNCHANGED <<counted, color>>

\* lines 140-147: the popped coordinate is dropped
PopDiscard ==
    /\ pc = "while"
    /\ flood.pixqueue # <<>>
    /\ ~Counts(flood, img)
    /\ FloodAdvance
    /\ UNCHANGED <<counted, color>>

\* lines 149-155: the popped pixel is marked and counted
PopMark ==
    /\ pc = "while"
    /\ flood.pixqueue # <<>>
    /\ Counts(flood, img)
    /\ FloodAdvance
    /\ counted' = [counted EXCEPT ![flood.pixqueue[Len(flood.pixqueue)]] =
                                        Append(@, Len(flood.areas) + 1)]
    /\ UNCHANGED color

\* line 157
AppendArea ==
    /\ pc = "while"
    /\ flood.pixqueue = <<>>
    /\ FloodAdvance
    /\ UNCHANGED <<counted, color>>

\* lines 159-160
ReturnLargest ==
    /\ pc = "for"
    /\ flood.next > Len(edges)
    /\ flood.areas # <<>>
    /\ FloodAdvance
    /\ color' = LargestArea(flood.areas).color
    /\ UNCHANGED counted

\* line 159 on an empty list: max() raises ValueError
ReturnRaises ==
    /\ pc = "for"
    /\ flood.next > Len(edges)
    /\ flood.areas = <<>>
    /\ FloodAdvance
    /\ UNCHANGED <<counted, color>>

NextFlood ==
    \/ SeedVisited
    \/ SeedNew
    \/ PopDiscard
    \/ PopMark
    \/ AppendArea
    \/ ReturnLargest
    \/ ReturnRaises

SpecFlood == InitFlood /\ [][NextFlood]_vars

-----------------------------------------------------------------------------
(* C2 *)

\* the anchors that pin the image against a side of the canvas, read off the
\* table of section 4.1
PinnedAnchors(side) ==
    CASE side = "left" -> {"top-left", "bottom-left", "center-left"}
      [] side = "right" -> {"top-right", "bottom-right", "center-right"}
      [] side = "top" -> {"top-left", "top-right", "center-top"}
      [] side = "bottom" -> {"bottom-left", "bottom-right", "center-bottom"}

EdgeOf(side, size) ==
    CASE side = "top" -> [i \in 1..size[1] |-> <<i - 1, 0>>]
      [] side = "left" -> [i \in 1..size[2] |-> <<0, i - 1>>]
      [] side = "right" -> [i \in 1..size[2] |-> <<size[1] - 1, i - 1>>]
      [] side = "bottom" -> [i \in 1..size[1] |-> <<i - 1, size[2] - 1>>]

VisibleEdge(side, size, p, ignore) ==
    IF ~ignore \/ Canonical(p) \notin PinnedAnchors(side)
    THEN EdgeOf(side, size) ELSE <<>>

\* C2: edge_pixels yields an edge exactly when ignore_edges is false or the
\* anchor does not pin the image against the canvas side of that edge
C2_EdgeVisibility ==
    pc = "done" =>
        edges = VisibleEdge("top", img.size, pos, ignore_edges)
                \o VisibleEdge("left", img.size, pos, ignore_edges)
                \o VisibleEdge("right", img.size, pos, ignore_edges)
                \o VisibleEdge("bottom", img.size, pos, ignore_edges)

-----------------------------------------------------------------------------
(* C4 *)

Occurrences(c) == Cardinality({i \in 1..Len(edges) : img.pixels[edges[i]] = c})

FirstOccurrence(c) ==
    CHOOSE i \in 1..Len(edges) :
        /\ img.pixels[edges[i]] = c
        /\ \A j \in 1..(i - 1) : img.pixels[edges[j]] # c

\* C4: find_background returns the colour that occurs most often in the edge
\* sequence, the earliest to occur among the colours of the highest tally
C4_MostVotes ==
    pc = "done" =>
        \A d \in {img.pixels[edges[i]] : i \in 1..Len(edges)} \ {color} :
            \/ Occurrences(color) > Occurrences(d)
            \/ /\ Occurrences(color) = Occurrences(d)
               /\ FirstOccurrence(color) < FirstOccurrence(d)

-----------------------------------------------------------------------------
(* C3, C9, C10 *)

\* the neighbours of p inside the image that have the colour of p
SameColourNeighbours(image, p) ==
    {q \in {<<p[1] + 1, p[2]>>, <<p[1] - 1, p[2]>>, <<p[1], p[2] + 1>>, <<p[1], p[2] - 1>>} :
        q \in Coords(image.size) /\ image.pixels[q] = image.pixels[p]}

RECURSIVE Closure(_, _, _)
\* S closed under SameColourNeighbours, given that only the pixels of new
\* may still have neighbours outside S
Closure(image, S, new) ==
    IF new = {} THEN S
    ELSE Closure(image, S \cup new,
                 UNION {SameColourNeighbours(image, p) : p \in new} \ (S \cup new))

\* the maximal 4-connected set of pixels of one colour around p
Component(image, p) == Closure(image, {}, {p})

\* the regions that can be grown from the edge sequence
EdgeRegions(image, es) == {Component(image, p) : p \in {es[i] : i \in 1..Len(es)}}

\* the position of the first edge pixel that lies in the region: its seed
SeedPosition(es, region) ==
    CHOOSE i \in 1..Len(es) :
        es[i] \in region /\ \A j \in 1..(i - 1) : es[j] \notin region

\* among the regions, the largest one, the first seeded of them on a tie
FirstLargest(es, regions) ==
    CHOOSE r \in regions :
        \A q \in regions :
            \/ Cardinality(r) > Cardinality(q)
            \/ Cardinality(r) = Cardinality(q)
                   /\ SeedPosition(es, r) <= SeedPosition(es, q)

\* the seed position of the largest region, the first of them on a tie
WinningSeed(image, es) ==
    SeedPosition(es, FirstLargest(es, EdgeRegions(image, es)))

\* C3: flood_find returns the colour of the largest region grown from the
\* sampled edge pixels, the one seeded first in edge order on a tie
C3_LargestRegionFirstOnTie ==
    pc = "done" => color = img.pixels[edges[WinningSeed(img, edges)]]

\* two regions of different colours tie for the largest size and the first
\* one's colour has been returned
C3_Witness ==
    /\ pc = "done"
    /\ Len(flood.areas) >= 2
    /\ flood.areas[1].size = flood.areas[2].size
    /\ flood.areas[1].color # flood.areas[2].color
    /\ \A k \in 1..Len(flood.areas) : flood.areas[k].size <= flood.areas[1].size
    /\ color = flood.areas[1].color

RECURSIVE SumSizes(_)
SumSizes(areas) ==
    IF areas = <<>> THEN 0 ELSE areas[1].size + SumSizes(Tail(areas))

\* the colour of the k-th region of the pass, recorded or being grown
RegionColor(k) ==
    IF k <= Len(flood.areas) THEN flood.areas[k].color ELSE flood.color

\* C9: the sizes recorded so far plus the running size equal the number of
\* visited pixels; a pixel is counted at most once, and only in a region of
\* its own colour
C9_Partition ==
    /\ SumSizes(flood.areas) + (IF pc = "while" THEN flood.size ELSE 0)
           = Cardinality(flood.visited)
    /\ \A p \in Coords(img.size) :
           /\ Len(counted[p]) <= 1
           /\ (counted[p] # <<>>) <=> (p \in flood.visited)
           /\ counted[p] # <<>> => RegionColor(counted[p][1]) = img.pixels[p]

\* a pass has ended with two regions recorded, every pixel counted once
C9_Witness ==
    /\ pc = "done"
    /\ Len(flood.areas) = 2
    /\ Cardinality(flood.visited) = 6
    /\ flood.areas[1].size + flood.areas[2].size = 6

\* C10 as stated: at the end of a pass the sizes of the regions sum to at
\* most the number of edge pixels yielded
C10_SumAtMostEdgePixels ==
    pc = "done" =>
        /\ SumSizes(flood.areas) <= Len(edges)
        /\ \A k \in 1..Len(flood.areas) : flood.areas[k].size <= Len(edges)

\* C10 amended: at the end of a pass the sizes of the regions sum to at most
\* the number of pixels of the image
C10_SumAtMostImagePixels ==
    pc = "done" =>
        /\ SumSizes(flood.areas) <= img.size[1] * img.size[2]
        /\ \A k \in 1..Len(flood.areas) :
               flood.areas[k].size <= img.size[1] * img.size[2]

\* a pass has ended whose single region has more pixels than were sampled
C10_Witness ==
    /\ pc = "done"
    /\ Len(flood.areas) = 1
    /\ flood.areas[1].size = img.size[1] * img.size[2]
    /\ flood.areas[1].size > Len(edges)

-----------------------------------------------------------------------------
(* SpecMain: a run of main() on a bounded command line *)

\* the image files: every image of at most MaxRunPixels pixels, and None for
\* a file that cannot be read
Filenames == Images(MaxRunPixels)

RunPositions == PositionNames \cup {"middle"}

InitMain ==
    /\ pc = "parse_args"
    /\ \E fn \in Filenames, unreadable \in BOOLEAN, p \in RunPositions,
          explicit \in BOOLEAN, sized \in BOOLEAN,
          die \in BOOLEAN, sm \in BOOLEAN,
          rot \in {<<>>, <<1, 9, 0>>, <<-1, 9, 0>>},
          sri \in {<<>>, <<20, 10>>}, src \in {<<>>, <<5, 10>>} :
            /\ unreadable => fn.size = <<1, 1>>
            /\ argv = [filename          |-> IF unreadable THEN [size |-> <<0, 0>>, pixels |-> <<>>] ELSE fn,
                       readable          |-> ~unreadable,
                       position          |-> p,
                       color             |-> IF explicit
                                             THEN <<<<1, 2, 5, 5>>, <<1, 0>>, <<1, 0>>>>
                                             ELSE None,
                       size              |-> IF sized THEN <<<<1, 3>>, <<1, 2>>>> ELSE None,
                       dont_ignore_edges |-> die,
                       dont_crop         |-> FALSE,
                       simple            |-> sm,
                       rotate            |-> rot,
                       scale_rel_image   |-> sri,
                       scale_rel_canvas  |-> src]
    /\ args = Idle
    /\ options = Idle
    /\ canvas = None
    /\ trace = <<>>
    /\ img = None
    /\ canvas_size = None
    /\ pos = None
    /\ ignore_edges = None
    /\ scale_oper = None
    /\ color = None
    /\ new_size = None
    /\ coord = None
    /\ IdleFlood

wallVars == <<img, canvas_size, pos, ignore_edges, scale_oper, color, new_size,
              coord, canvas, trace>>

\* lines 235-248: argparse; a store_false flag is True unless it is given
ParseArgs ==
    /\ pc = "parse_args"
    /\ args' = [argv EXCEPT !.dont_ignore_edges = ~argv.dont_ignore_edges]
    /\ pc' = "main"
    /\ UNCHANGED <<argv, options, wallVars, floodVars>>

\* lines 251-275: sys.exit(message)
MainExits ==
    /\ pc = "main"
    /\ ExitsEarly(args)
    /\ pc' = "exit_message"
    /\ UNCHANGED <<argv, args, options, wallVars, floodVars>>

\* lines 249-287: the options are built and wallpaperer() is called
MainCalls ==
    /\ pc = "main"
    /\ ~ExitsEarly(args)
    /\ options' = Options(args)
    /\ canvas_size' = CanvasSize(args.size)
    /\ pos' = args.position
    /\ pc' = "open"
    /\ UNCHANGED <<argv, args, floodVars, img, ignore_edges, scale_oper, color,
                   new_size, coord, canvas, trace>>

\* line 178
Open ==
    /\ pc = "open"
    /\ args.readable
    /\ img' = args.filename
    /\ pc' = "color"
    /\ UNCHANGED <<argv, args, options, floodVars, canvas_size, pos, ignore_edges,
                   scale_oper, color, new_size, coord, canvas, trace>>

\* line 178 raises IOError; lines 288-292
OpenFails ==
    /\ pc = "open"
    /\ ~args.readable
    /\ pc' = "exit_-1"
    /\ UNCHANGED <<argv, args, options, wallVars, floodVars>>

\* lines 180-181 with a colour in the options
ExplicitColor ==
    /\ pc = "color"
    /\ options.color # None
    /\ color' = options.color
    /\ trace' = trace \o <<<<"color", color'>>>>
    /\ pc' = "canvas"
    /\ UNCHANGED <<argv, args, options, floodVars, img, canvas_size, pos,
                   ignore_edges, scale_oper, new_size, coord, canvas>>

\* lines 182-183: find_background(img, pos) runs with its default ignore_edges
SimpleSelect ==
    /\ pc = "color"
    /\ options.color = None
    /\ options.simple
    /\ ignore_edges' = TRUE
    /\ color' = find_background(img, pos, TRUE)
    /\ trace' = trace \o (IF color' = None THEN <<<<"find_background">>>>
                          ELSE <<<<"find_background">>, <<"color", color'>>>>)
    /\ pc' = IF color' = None THEN "raised" ELSE "canvas"
    /\ UNCHANGED <<argv, args, options, floodVars, img, canvas_size, pos,
                   scale_oper, new_size, coord, canvas>>

\* lines 184-185
FloodSelect ==
    /\ pc = "color"
    /\ options.color = None
    /\ ~options.simple
    /\ ignore_edges' = options.ignore_edges
    /\ color' = flood_find(img, pos, options.ignore_edges)
    /\ trace' = trace \o (IF color' = None THEN <<<<"flood_find">>>>
                          ELSE <<<<"flood_find">>, <<"color", color'>>>>)
    /\ pc' = IF color' = None THEN "raised" ELSE "canvas"
    /\ UNCHANGED <<argv, args, options, floodVars, img, canvas_size, pos,
                   scale_oper, new_size, coord, canvas>>

\* lines 188-190
NewCanvas ==
    /\ pc = "canvas"
    /\ color' = NormalizeColor(color)
    /\ canvas' = [size |-> canvas_size, color |-> color', paste |-> None]
    /\ trace' = Append(trace, <<"canvas", color'>>)
    /\ pc' = "rotate"
    /\ UNCHANGED <<argv, args, options, floodVars, img, canvas_size, pos,
                   ignore_edges, scale_oper, new_size, coord>>

\* lines 193-194
RotateImage ==
    /\ pc = "rotate"
    /\ options.rotate # None
    /\ img' = Rotate(img, options.rotate[1])
    /\ trace' = Append(trace, <<"rotate", color>>)
    /\ pc' = "scale"
    /\ UNCHANGED <<argv, args, options, floodVars, canvas_size, pos, ignore_edges,
                   scale_oper, color, new_size, coord, canvas>>

\* line 193: no "rotate" in the options
NoRotation ==
    /\ pc = "rotate"
    /\ options.rotate = None
    /\ pc' = "scale"
    /\ UNCHANGED <<argv, args, options, wallVars, floodVars>>

\* lines 197-200; img.resize raises ValueError on a dimension of 0
Scale ==
    /\ pc = "scale"
    /\ scale_oper' = options.scale_oper
    /\ new_size' = calculate_size(img.size, canvas_size, scale_oper')
    /\ trace' = Append(trace, <<"scale", img.size>>)
    /\ IF new_size' = img.size
       THEN pc' = "paste" /\ img' = img
       ELSE IF new_size'[1] = 0 \/ new_size'[2] = 0
       THEN pc' = "raised" /\ img' = img
       ELSE /\ pc' = "paste"
            /\ img' = [size |-> new_size', pixels |-> <<"LANCZOS", img.pixels>>]
    /\ UNCHANGED <<argv, args, options, floodVars, canvas_size, pos, ignore_edges,
                   color, coord, canvas>>

\* lines 203-204
Paste ==
    /\ pc = "paste"
    /\ coord' = POSITION_VALUES(pos, img.size, canvas_size)
    /\ canvas' = [canvas EXCEPT !.paste = <<img.size, coord'>>]
    /\ trace' = trace \o <<<<"coord", img.size>>, <<"paste">>>>
    /\ pc' = "save"
    /\ UNCHANGED <<argv, args, options, floodVars, img, canvas_size, pos,
                   ignore_edges, scale_oper, color, new_size>>

\* lines 207, 292
Save ==
    /\ pc = "save"
    /\ pc' = "exit_0"
    /\ UNCHANGED <<argv, args, options, wallVars, floodVars>>

NextMain ==
    \/ ParseArgs
    \/ MainExits
    \/ MainCalls
    \/ Open
    \/ OpenFails
    \/ ExplicitColor
    \/ SimpleSelect
    \/ FloodSelect
    \/ NewCanvas
    \/ RotateImage
    \/ NoRotation
    \/ Scale
    \/ Paste
    \/ Save

SpecMain == InitMain /\ [][NextMain]_vars

-----------------------------------------------------------------------------
(* C7, C8 *)

\* the names of the steps wallpaperer() has taken, in the order it took them
StepNames == [i \in 1..Len(trace) |-> trace[i][1]]

Taken(step) == \E i \in 1..Len(trace) : trace[i][1] = step

\* the detail recorded with a step that has been taken
DetailOf(step) == trace[CHOOSE i \in 1..Len(trace) : trace[i][1] = step][2]

IsPrefix(a, b) == Len(a) <= Len(b) /\ a = SubSeq(b, 1, Len(a))

\* the order of section 4.6 for the options of the run
StepOrder ==
    (IF options.color # None THEN <<>>
     ELSE IF options.simple THEN <<"find_background">> ELSE <<"flood_find">>)
    \o <<"color", "canvas">>
    \o (IF options.rotate # None THEN <<"rotate">> ELSE <<>>)
    \o <<"scale", "coord", "paste">>

\* the size of the image file once rotated as the options ask
PostRotationSize ==
    IF options.rotate # None /\ options.rotate[1] % 180 = 90
    THEN <<args.filename.size[2], args.filename.size[1]>>
    ELSE args.filename.size

\* C7: wallpaperer() determines the fill colour, allocates the canvas with
\* that colour in 4 channels, rotates with the fill colour as backdrop, scales
\* from the post-rotation size, places from the post-scale size and pastes, in
\* this order; the selector runs exactly when the options carry no colour
C7_StepOrder ==
    pc \notin {"parse_args", "main", "exit_message"} =>
        /\ IsPrefix(StepNames, StepOrder)
        /\ pc = "exit_0" => StepNames = StepOrder
        /\ Taken("color") =>
               (Taken("flood_find") \/ Taken("find_background")) <=> (options.color = None)
        /\ Taken("canvas") =>
               /\ Len(canvas.color) = 4
               /\ canvas.color = SubSeq(DetailOf("color"), 1, 3)
                                    \o <<IF Len(DetailOf("color")) = 3 THEN 255
                                         ELSE DetailOf("color")[4]>>
               /\ canvas.size = canvas_size
               /\ options.color = <<255, 0, 0>> => canvas.color = <<255, 0, 0, 255>>
        /\ Taken("rotate") => DetailOf("rotate") = canvas.color
        /\ Taken("scale") =>
               /\ DetailOf("scale") = PostRotationSize
               /\ new_size = calculate_size(PostRotationSize, canvas_size, options.scale_oper)
        /\ Taken("coord") =>
               /\ DetailOf("coord") = new_size
               /\ coord = POSITION_VALUES(pos, new_size, canvas_size)
               /\ canvas.paste = <<new_size, coord>>

\* a run with the explicit colour (255,0,0), a rotation and a scale operation
\* has pasted a rotated, resized image without invoking a selector
C7_Witness ==
    /\ pc = "exit_0"
    /\ options.color = <<255, 0, 0>>
    /\ canvas.color = <<255, 0, 0, 255>>
    /\ StepNames = <<"color", "canvas", "rotate", "scale", "coord", "paste">>
    /\ args.filename.size = <<1, 2>>
    /\ new_size = <<4, 2>>
    /\ coord = <<1916, 0>>
    /\ pos = "tr"

\* C8: the ignore_edges value the selector runs with is true when
\* --dont-ignore-edges is not passed and false when it is, in both modes
C8_EdgePolicy ==
    (Taken("flood_find") \/ Taken("find_background")) =>
        ignore_edges = ~argv.dont_ignore_edges

=============================================================================
